---- MODULE Spec2Model ----
(***************************************************************************)
(* Model of virgin.py: the history generators of class VirginMobile        *)
(* (iter_history, iter_history_step and the three entry points main uses), *)
(* the Entry record and its ordering, the reconciler cat() and both paths  *)
(* of main() up to the rows of the report.                                 *)
(*                                                                         *)
(* Time is counted in whole seconds from 2023-01-01T00:00:00.              *)
(***************************************************************************)
EXTENDS Integers, Sequences, FiniteSets, TLC

VARIABLES
    (* ---- download path: iter_history / iter_history_step ---- *)
    entry,      \* the entry point that called iter_history, and its arguments
    start0,     \* argument start of iter_history
    end0,       \* argument end of iter_history
    now,        \* the value datetime.utcnow() returns at line 75
    honest,     \* TRUE: the remote lists the records it holds; FALSE: only
                \* the sizes of its pages are modelled
    held,       \* the records an honest remote holds, in its own order
    start,      \* local start of iter_history (advanced at line 80)
    end,        \* local end of iter_history (clamped at line 75)
    nend,       \* local nend of iter_history = end of iter_history_step
    page,       \* local page of iter_history_step
    nrec,       \* len(result["records"]) of the latest response
    resp,       \* result["records"] of the latest response of an honest
                \* remote
    idx,        \* number of elements of that response already yielded
    pc,         \* position of the generator
    running,    \* TRUE while a next() call of the consumer is being served
    stopped,    \* TRUE once the consumer has abandoned the generator
    failed,     \* history: a response had an error status, or an element
                \* did not decode
    calls,      \* history: the (start, end) passed to iter_history_step
    requests,   \* history: the session.get calls issued by the current
                \* call of iter_history_step
    responses,  \* history: len(result["records"]) of the response to each
                \* of them
    yielded,    \* history: the number of records that call has yielded
    lastFrom,   \* history: index in requests of the request whose response
                \* held the record yielded last by that call (0: none yet)
    got,        \* the Entry values an honest remote's generator has yielded
                \* to set(entries), line 182
    (* ---- main ---- *)
    entries,    \* local entries of main
    inputs,     \* history: the Entry values decoded from the files read so
                \* far, in reading order
    nfiles,     \* number of files read so far
    pcMain,     \* position of main
    written,    \* number of rows of the report written to stdout
    (* ---- cat() and Entry.__lt__ called directly ---- *)
    fa, fb, fc, \* the arguments
    fout        \* the results of the calls

inputVars == <<entry, start0, end0, now, honest, held>>
fetchVars == <<inputVars, start, end, nend, page, nrec, resp, idx, pc,
               running, stopped, failed, calls, requests, responses,
               yielded, lastFrom, got>>
catVars == <<entries, inputs, nfiles, pcMain, written>>
fnVars == <<fa, fb, fc, fout>>
vars == <<fetchVars, catVars, fnVars>>

Min(a, b) == IF a <= b THEN a ELSE b

(***************************************************************************)
(* Bounds of the model.                                                    *)
(***************************************************************************)
\* requested ranges span at most this many whole steps (plus or minus 1 s)
MaxSteps == 2
\* the remote answers at most this many full pages per sub-range
MaxPages == 1
\* the files read by one run, and the arguments of one call of cat, hold at
\* most this many records in all
MaxRecords == 3
\* main reads at most this many files
MaxFiles == 3

(***************************************************************************)
(* Program constants.                                                      *)
(***************************************************************************)
\* step = timedelta(days=15), in seconds
step == 1296000
\* pageSize = 500
pageSize == 500

(***************************************************************************)
(* datetime and timedelta, as far as lines 53-71 use them.                 *)
(***************************************************************************)
IsLeap(y) == (y % 4 = 0 /\ y % 100 # 0) \/ y % 400 = 0

DaysInMonth(y, m) ==
    CASE m \in {4, 6, 9, 11} -> 30
      [] m = 2 -> IF IsLeap(y) THEN 29 ELSE 28
      [] OTHER -> 31

RECURSIVE DaysBeforeYear(_)
DaysBeforeYear(y) ==
    IF y <= 2023 THEN 0
    ELSE DaysBeforeYear(y - 1) + (IF IsLeap(y - 1) THEN 366 ELSE 365)

RECURSIVE DaysBeforeMonth(_, _)
DaysBeforeMonth(y, m) ==
    IF m = 1 THEN 0 ELSE DaysBeforeMonth(y, m - 1) + DaysInMonth(y, m - 1)

\* timedelta(days=d, hours=h, minutes=m, seconds=s)
TimeDelta(d, h, m, s) == ((d * 24 + h) * 60 + m) * 60 + s

\* datetime(y, m, d), midnight
DateTime(y, m, d) ==
    TimeDelta(DaysBeforeYear(y) + DaysBeforeMonth(y, m) + d - 1, 0, 0, 0)

\* the month up to and including the first instant of the next one
iter_history_monthWhole(year, month) ==
    <<DateTime(year, month, 1),
      IF month = 12 THEN DateTime(year + 1, 1, 1)
                    ELSE DateTime(year, month + 1, 1)>>

\* lines 53-60: the (start, end) iter_history_month passes to iter_history
iter_history_month(year, month) ==
    <<DateTime(year, month, 1),
      (IF month = 12 THEN DateTime(year + 1, 1, 1)
                     ELSE DateTime(year, month + 1, 1)) - TimeDelta(0, 0, 0, 1)>>

\* lines 62-66: the (start, end) iter_history_year passes to iter_history
iter_history_year(year) ==
    <<DateTime(year, 1, 1), DateTime(year + 1, 1, 1) - TimeDelta(0, 0, 0, 1)>>

\* lines 68-71: the (start, end) iter_history_days passes to iter_history
\* when datetime.utcnow() returns clock at line 69
iter_history_days(count, clock) ==
    <<clock - TimeDelta(count, 0, 0, 0), clock>>

(***************************************************************************)
(* Inputs of the download path.                                            *)
(***************************************************************************)
\* iter_history called directly: the requested range starts one second
\* after the origin and ends before it starts, with it, or a second later,
\* or is one second short of MaxSteps whole steps, exactly that long, or
\* one second longer
StartPoints == {1}
EndPoints == {k * step + d : k \in {0, MaxSteps}, d \in {0, 1, 2}}

\* the clock reads before the range, inside its first step, or at its last
\* whole step
NowPoints == {0, step - 1, MaxSteps * step}

\* sizes of result["records"] the remote may answer with: around 0 and
\* around pageSize, the values the test at line 112 distinguishes
RespSizes == {0, 1, pageSize - 1, pageSize, pageSize + 1}

\* the command lines of main, lines 170-180: a number of last days that is
\* negative, zero, less than a step and more than a step; a month of 28
\* days and month 12; a year
MainEntries ==
    {[kind |-> "days", count |-> c] : c \in {-1, 0, 1, 16}}
    \cup {[kind |-> "month", year |-> 2023, month |-> m] : m \in {2, 12}}
    \cup {[kind |-> "year", year |-> 2023]}

\* the clock of a run of main: inside February 2023, or after 2023
MainClocks == {DateTime(2023, 2, 20), DateTime(2024, 1, 15)}

\* the range the entry point e passes to iter_history
EntryRange(e, clock) ==
    CASE e.kind = "days" -> iter_history_days(e.count, clock)
      [] e.kind = "month" -> iter_history_month(e.year, e.month)
      [] e.kind = "year" -> iter_history_year(e.year)

\* a record as the remote lists it: strings for date, quantity and price
\* are written as the values they denote
RemoteRecord(t, ty, q, p) ==
    [date |-> t, type |-> ty, direction |-> "OUT", quantity |-> q,
     price |-> p]

\* what an honest remote may hold for a range [s, e]: a record at s, two at
\* the end of the first step, one a second later (with a negative quantity
\* and a negative price) and one at e
RemoteRecords(s, e) ==
    <<RemoteRecord(s, "DATA", 100, 0),
      RemoteRecord(s + step, "DATA", 100, 0),
      RemoteRecord(s + step, "SMS", 100, 0),
      RemoteRecord(s + step + 1, "DATA", -20, -5),
      RemoteRecord(e, "SMS", 100, 0)>>

Reverse(s) == [i \in 1..Len(s) |-> s[Len(s) + 1 - i]]

RECURSIVE Sublist(_, _, _)
Sublist(s, keep, i) ==
    IF i > Len(s) THEN <<>>
    ELSE (IF i \in keep THEN <<s[i]>> ELSE <<>>) \o Sublist(s, keep, i + 1)

\* the lists an honest remote may hold for [s, e]: any of these records,
\* oldest first or newest first
HeldLists(s, e) ==
    LET all == RemoteRecords(s, e)
        subs == {Sublist(all, keep, 1) : keep \in SUBSET (1..Len(all))}
    IN  subs \cup {Reverse(l) : l \in subs}

RECURSIVE Within(_, _, _)
Within(l, s, e) ==
    IF l = <<>> THEN <<>>
    ELSE (IF s <= Head(l).date /\ Head(l).date <= e THEN <<Head(l)>>
          ELSE <<>>) \o Within(Tail(l), s, e)

\* the page p of size n of the list l
PageOf(l, p, n) ==
    SubSeq(l, Min(Len(l), p * n) + 1, Min(Len(l), (p + 1) * n))

\* result["records"] of an honest remote for the request (s, e, p, n): the
\* records it holds with s <= date <= e, page p of them
HonestPage(l, s, e, p, n) == PageOf(Within(l, s, e), p, n)

(***************************************************************************)
(* iter_history, lines 73-80, with iter_history_step, lines 82-115,        *)
(* inlined at the for loop of line 78.  Both are generators: their code    *)
(* runs only while the consumer's next() is pending, and stops at yield.   *)
(***************************************************************************)

\* a body that runs ahead of its consumer
ResumableEager == TRUE

\* the generator body executes only inside a next() call
Resumable == running

\* the requested end, not clamped to the clock
ClampEndNone(e, n) == e

\* line 75: end = min(end, datetime.utcnow())
ClampEnd(e, n) == Min(e, n)

\* line 76: while start <= end
WhileCond(s, e) == s <= e

\* the window end without the clamp
NEndNoClamp(s, e) == s + step

\* line 77: nend = min(end, start + step)
NEnd(s, e) == Min(e, s + step)

\* a window start that does not advance
NextStartStay(s) == s

\* line 80: start += step
NextStart(s) == s + step

\* a page loop that runs until a page is empty
LastPageEmpty(n) == n = 0

\* the page test off by one
LastPageLE(n) == n <= pageSize

\* line 112: if len(result["records"]) < pageSize: break
LastPage(n) == n < pageSize

\* lines 103-110: the Entry built from an element of result["records"]
Decode(r, number) ==
    [date |-> r.date, type |-> r.type, direction |-> r.direction,
     quantity |-> r.quantity, cost |-> r.price, number |-> number]

\* the generator's locals and histories before its first next()
InitGenerator ==
    /\ start = start0
    /\ end = end0
    /\ nend = 0
    /\ page = 0
    /\ nrec = 0
    /\ resp = <<>>
    /\ idx = 0
    /\ pc = "start"
    /\ running = FALSE
    /\ stopped = FALSE
    /\ failed = FALSE
    /\ calls = <<>>
    /\ requests = <<>>
    /\ responses = <<>>
    /\ yielded = 0
    /\ lastFrom = 0
    /\ got = <<>>

\* iter_history(number, start, end) called directly
InitFetch ==
    /\ entry = [kind |-> "range"]
    /\ start0 \in StartPoints
    /\ end0 \in EndPoints
    /\ now \in NowPoints
    /\ honest = FALSE
    /\ held = <<>>
    /\ InitGenerator

\* main on the download path, lines 170-180: the generator of the chosen
\* entry point, facing an honest remote
InitDownload ==
    /\ entry \in MainEntries
    /\ now \in MainClocks
    /\ start0 = EntryRange(entry, now)[1]
    /\ end0 = EntryRange(entry, now)[2]
    /\ honest = TRUE
    /\ held \in HeldLists(start0, end0)
    /\ InitGenerator

\* the consumer asks for the next item (next(), a for loop, set(entries))
ConsumerNext ==
    /\ ~running
    /\ ~stopped
    /\ pc \notin {"idle", "done", "raised"}
    /\ running' = TRUE
    /\ UNCHANGED <<inputVars, start, end, nend, page, nrec, resp, idx, pc,
                   stopped, failed, calls, requests, responses, yielded,
                   lastFrom, got>>
    /\ UNCHANGED <<catVars, fnVars>>

\* the consumer stops consuming (KeyboardInterrupt in main, lines 199-202):
\* the suspended generator is never resumed
ConsumerStop ==
    /\ ~running
    /\ ~stopped
    /\ pc \notin {"idle", "done", "raised"}
    /\ stopped' = TRUE
    /\ UNCHANGED <<inputVars, start, end, nend, page, nrec, resp, idx, pc,
                   running, failed, calls, requests, responses, yielded,
                   lastFrom, got>>
    /\ UNCHANGED <<catVars, fnVars>>

\* lines 74-75, run by the first next()
Begin ==
    /\ Resumable
    /\ pc = "start"
    /\ end' = ClampEnd(end, now)
    /\ pc' = "while"
    /\ UNCHANGED <<inputVars, start, nend, page, nrec, resp, idx,
                   running, stopped, failed, calls, requests, responses,
                   yielded, lastFrom, got>>
    /\ UNCHANGED <<catVars, fnVars>>

\* lines 76-78 and 85-86: the loop test, and the call of iter_history_step
WhileTest ==
    /\ Resumable
    /\ pc = "while"
    /\ IF WhileCond(start, end)
       THEN /\ nend' = NEnd(start, end)
            /\ calls' = Append(calls, <<start, NEnd(start, end)>>)
            /\ page' = 0
            /\ requests' = <<>>
            /\ responses' = <<>>
            /\ yielded' = 0
            /\ lastFrom' = 0
            /\ pc' = "request"
            /\ UNCHANGED running
       ELSE /\ pc' = "done"
            /\ running' = FALSE
            /\ UNCHANGED <<nend, calls, page, requests, responses, yielded,
                           lastFrom>>
    /\ UNCHANGED <<inputVars, start, end, nrec, resp, idx, stopped, failed,
                   got>>
    /\ UNCHANGED <<catVars, fnVars>>

\* what becomes of the generator when an exception is raised inside it
\* and caught there to try the request again
AfterFailureRetry == "request"

\* lines 100 and 103-110 stand in no try block: an exception raised there
\* leaves the generator, which is finished from then on
AfterFailure == "raised"

\* lines 88-101: one request; the remote answers with an error status
\* (raise_for_status raises) or with a page of records
Request ==
    /\ Resumable
    /\ pc = "request"
    /\ requests' = Append(requests, [start |-> start, end |-> nend,
                                     page |-> page, pageSize |-> pageSize])
    /\ \/ /\ failed' = TRUE
          /\ pc' = AfterFailure
          /\ running' = FALSE
          /\ UNCHANGED <<nrec, resp, idx, responses>>
       \/ /\ ~honest
          /\ \E n \in RespSizes :
                /\ page >= MaxPages => n < pageSize
                /\ nrec' = n
                /\ responses' = Append(responses, n)
          /\ idx' = 0
          /\ pc' = "foreach"
          /\ UNCHANGED <<resp, running, failed>>
       \/ /\ honest
          /\ resp' = HonestPage(held, start, nend, page, pageSize)
          /\ nrec' = Len(resp')
          /\ responses' = Append(responses, Len(resp'))
          /\ idx' = 0
          /\ pc' = "foreach"
          /\ UNCHANGED <<running, failed>>
    /\ UNCHANGED <<inputVars, start, end, nend, page, stopped, calls,
                   yielded, lastFrom, got>>
    /\ UNCHANGED <<catVars, fnVars>>

\* lines 102-110: the next element is decoded and yielded, or its decoding
\* raises (KeyError, ValueError)
Element ==
    /\ Resumable
    /\ pc = "foreach"
    /\ idx < nrec
    /\ \/ /\ idx' = idx + 1
          /\ yielded' = yielded + 1
          /\ lastFrom' = Len(requests)
          /\ got' = IF honest THEN Append(got, Decode(resp[idx + 1], "555"))
                    ELSE got
          /\ running' = FALSE
          /\ UNCHANGED <<pc, failed>>
       \/ /\ failed' = TRUE
          /\ pc' = AfterFailure
          /\ running' = FALSE
          /\ UNCHANGED <<idx, yielded, lastFrom, got>>
    /\ UNCHANGED <<inputVars, start, end, nend, page, nrec, resp, stopped,
                   calls, requests, responses>>
    /\ UNCHANGED <<catVars, fnVars>>

\* lines 112-115 after the last element, and line 80 when the page loop
\* is left
PageCheck ==
    /\ Resumable
    /\ pc = "foreach"
    /\ idx = nrec
    /\ IF LastPage(nrec)
       THEN /\ start' = NextStart(start)
            /\ pc' = "while"
            /\ UNCHANGED page
       ELSE /\ page' = page + 1
            /\ pc' = "request"
            /\ UNCHANGED start
    /\ UNCHANGED <<inputVars, end, nend, nrec, resp, idx, running, stopped,
                   failed, calls, requests, responses, yielded, lastFrom,
                   got>>
    /\ UNCHANGED <<catVars, fnVars>>

IdleFetch ==
    /\ entry = [kind |-> "none"]
    /\ start0 = 0 /\ end0 = 0 /\ now = 0 /\ honest = FALSE /\ held = <<>>
    /\ start = 0 /\ end = 0 /\ nend = 0
    /\ page = 0 /\ nrec = 0 /\ resp = <<>> /\ idx = 0 /\ pc = "idle"
    /\ running = FALSE /\ stopped = FALSE /\ failed = FALSE
    /\ calls = <<>> /\ requests = <<>> /\ responses = <<>> /\ yielded = 0
    /\ lastFrom = 0 /\ got = <<>>

(***************************************************************************)
(* Entry, lines 29-36: a frozen dataclass with order=True, compared as the *)
(* tuple of its fields in declaration order.  cost is counted in hundredths.*)
(***************************************************************************)
Dates == {1, 2}
Types == {"DATA", "SMS"}
Directions == {"IN", "OUT"}
Quantities == {-20, 100, 120}
Costs == {-5, 0}
Numbers == {"555"}

\* the records of the model: every type and direction with either positive
\* quantity at the first timestamp; every type at the second, with the
\* values int() and float() accept although no provider should send them, a
\* negative quantity and a negative cost
Entry ==
    {e \in [date : Dates, type : Types, direction : Directions,
            quantity : Quantities, cost : Costs, number : Numbers] :
        IF e.date = 1 THEN e.quantity > 0 /\ e.cost = 0
        ELSE e.direction = "OUT" /\ e.quantity < 0 /\ e.cost < 0}

\* the strings of the model in the order of Python's str comparison
\* (by code point: digits before upper-case letters)
PyStrings == <<"555", "DATA", "IN", "OUT", "SMS">>

StrIndex(x) == CHOOSE i \in 1..Len(PyStrings) : PyStrings[i] = x

\* str.__lt__
StrLess(x, y) == StrIndex(x) < StrIndex(y)

\* the comparison with type before date
EntryLessTypeFirst(r1, r2) ==
    \/ StrLess(r1.type, r2.type)
    \/ r1.type = r2.type /\ r1.date < r2.date

\* Entry.__lt__, generated by order=True: lexicographic on
\* (date, type, direction, quantity, cost, number)
EntryLess(r1, r2) ==
    \/ r1.date < r2.date
    \/ /\ r1.date = r2.date
       /\ \/ StrLess(r1.type, r2.type)
          \/ /\ r1.type = r2.type
             /\ \/ StrLess(r1.direction, r2.direction)
                \/ /\ r1.direction = r2.direction
                   /\ \/ r1.quantity < r2.quantity
                      \/ /\ r1.quantity = r2.quantity
                         /\ \/ r1.cost < r2.cost
                            \/ /\ r1.cost = r2.cost
                               /\ StrLess(r1.number, r2.number)

Range(s) == {s[i] : i \in DOMAIN s}

RECURSIVE SortEntries(_)
SortEntries(S) ==
    IF S = {} THEN <<>>
    ELSE LET m == CHOOSE x \in S : \A y \in S : y = x \/ EntryLess(x, y)
         IN  <<m>> \o SortEntries(S \ {m})

\* sorted(entries): the duplicates are kept
RECURSIVE SortedList(_)
SortedList(s) ==
    IF s = <<>> THEN <<>>
    ELSE LET m == CHOOSE i \in DOMAIN s :
                      \A j \in DOMAIN s : s[j] = s[i] \/ EntryLess(s[i], s[j])
         IN  <<s[m]>> \o SortedList(SubSeq(s, 1, m - 1) \o
                                    SubSeq(s, m + 1, Len(s)))

\* line 182: sorted(set(entries))
SortedSet(s) == SortEntries(Range(s))

(***************************************************************************)
(* cat, lines 118-128.                                                     *)
(***************************************************************************)
\* line 122: key = (e.date, e.type)
Key(e) == <<e.date, e.type>>

\* descending order of the keys
KeyGreater(k1, k2) ==
    \/ k1[1] > k2[1]
    \/ k1[1] = k2[1] /\ StrLess(k2[2], k1[2])

\* tuple.__lt__ on the keys (datetime, str), used by sorted(c) at line 124
KeyLess(k1, k2) ==
    \/ k1[1] < k2[1]
    \/ k1[1] = k2[1] /\ StrLess(k1[2], k2[2])

RECURSIVE SortKeys(_)
\* line 124: sorted(c)
SortKeys(K) ==
    IF K = {} THEN <<>>
    ELSE LET m == CHOOSE k \in K : \A o \in K : o = k \/ KeyLess(k, o)
         IN  <<m>> \o SortKeys(K \ {m})

\* a loop over b alone
CatInputsSecondOnly(a, b) == b

\* lines 120-121: the elements of a, then those of b
CatInputs(a, b) == a \o b

IsKey(e, k) == Key(e) = k

\* lines 119-123 and 125: c[key], the elements of that key in input order
Group(all, k) == SelectSeq(all, LAMBDA e : IsKey(e, k))

\* an assertion without the exemption of "DATA"
ConflictAnyType(g) == Cardinality({g[i].quantity : i \in DOMAIN g}) # 1

\* lines 126-127: the assertion fails
Conflict(g) ==
    ~(Key(g[1])[2] = "DATA"
        \/ Cardinality({g[i].quantity : i \in DOMAIN g}) = 1)

\* the first element of the group
FirstOfGroup(g) == g[1]

\* the smallest quantity
MinByQuantity(g) ==
    g[CHOOSE i \in DOMAIN g :
        /\ \A j \in DOMAIN g : g[i].quantity <= g[j].quantity
        /\ \A j \in 1..(i - 1) : g[j].quantity > g[i].quantity]

\* line 128: max(elements, key=lambda e: e.quantity), the first element of
\* the largest quantity
MaxByQuantity(g) ==
    g[CHOOSE i \in DOMAIN g :
        /\ \A j \in DOMAIN g : g[j].quantity <= g[i].quantity
        /\ \A j \in 1..(i - 1) : g[j].quantity < g[i].quantity]

\* the generator cat(a, b) run to its end: the records it yields, and
\* whether it ends by raising AssertionError rather than by exhaustion
cat(a, b) ==
    LET all == CatInputs(a, b)
        ks == SortKeys({Key(all[i]) : i \in DOMAIN all})
        bad == {i \in DOMAIN ks : Conflict(Group(all, ks[i]))}
        n == IF bad = {} THEN Len(ks)
             ELSE (CHOOSE i \in bad : \A j \in bad : i <= j) - 1
    IN  [raised |-> bad # {},
         out |-> [i \in 1..n |-> MaxByQuantity(Group(all, ks[i]))]]

\* the sequences of at most n records
Collections(n) == UNION {[1..k -> Entry] : k \in 0..n}

(***************************************************************************)
(* main, lines 134-195.                                                    *)
(***************************************************************************)
\* the cat path, line 135
InitCat ==
    /\ entries = <<>>
    /\ inputs = <<>>
    /\ nfiles = 0
    /\ pcMain = "files"
    /\ written = 0

\* the download path, lines 170-180: entries is the generator
InitMain ==
    /\ entries = <<>>
    /\ inputs = <<>>
    /\ nfiles = 0
    /\ pcMain = "download"
    /\ written = 0

IdleCat ==
    /\ entries = <<>> /\ inputs = <<>> /\ nfiles = 0 /\ pcMain = "idle"
    /\ written = 0

\* lines 136-149: one file is read and reconciled with entries; a row that
\* does not decode, or a conflict, ends the program with the exception
CatFile ==
    /\ pcMain = "files"
    /\ nfiles < MaxFiles
    /\ nfiles' = nfiles + 1
    /\ \/ /\ pcMain' = "decode_error"
          /\ UNCHANGED <<entries, inputs>>
       \/ \E f \in Collections(MaxRecords - Len(inputs)) :
             /\ inputs' = inputs \o f
             /\ IF cat(entries, f).raised
                THEN /\ pcMain' = "conflict"
                     /\ UNCHANGED entries
                ELSE /\ entries' = cat(entries, f).out
                     /\ UNCHANGED pcMain
    /\ UNCHANGED written
    /\ UNCHANGED <<fetchVars, fnVars>>

\* line 182, after the last file (docopt requires at least one)
SortReport ==
    /\ pcMain = "files"
    /\ nfiles >= 1
    /\ entries' = SortedSet(entries)
    /\ pcMain' = "sorted"
    /\ UNCHANGED <<inputs, nfiles, written>>
    /\ UNCHANGED <<fetchVars, fnVars>>

\* line 182 on the download path: set(entries) has consumed the generator
\* to its end
SortDownload ==
    /\ pcMain = "download"
    /\ pc = "done"
    /\ entries' = SortedSet(got)
    /\ pcMain' = "downloaded"
    /\ UNCHANGED <<inputs, nfiles, written>>
    /\ UNCHANGED <<fetchVars, fnVars>>

\* rows written while entries is still being collected
CanWriteEarly == TRUE

\* lines 183-195 follow line 182
CanWrite == pcMain \in {"sorted", "downloaded"}

\* lines 184-190: the table, every row in one print
WriteTable ==
    /\ CanWrite
    /\ written = 0
    /\ Len(entries) > 0
    /\ written' = Len(entries)
    /\ UNCHANGED <<entries, inputs, nfiles, pcMain>>
    /\ UNCHANGED <<fetchVars, fnVars>>

\* lines 194-195: one row of the CSV
WriteRow ==
    /\ CanWrite
    /\ written < Len(entries)
    /\ written' = written + 1
    /\ UNCHANGED <<entries, inputs, nfiles, pcMain>>
    /\ UNCHANGED <<fetchVars, fnVars>>

(***************************************************************************)
(* cat and the comparison of two Entry values, called on drawn arguments.  *)
(***************************************************************************)
\* a third collection is drawn when the first two hold records (main's
\* fold covers an empty first collection)
InitFn ==
    /\ fa \in Collections(MaxRecords)
    /\ fb \in Collections(MaxRecords - Len(fa))
    /\ fc \in IF fa = <<>> \/ fb = <<>> THEN {<<>>}
              ELSE Collections(MaxRecords - Len(fa) - Len(fb))
    /\ fout = [op |-> "none"]

IdleFn == fa = <<>> /\ fb = <<>> /\ fc = <<>> /\ fout = [op |-> "idle"]

\* an argument that raises taken for one that ends where it raised
catOverPrefix(ga, gb) == cat(ga.out, gb.out)

\* cat called on the generators ga and gb, given what each of them yields:
\* the loop of lines 120-122 consumes both to their end before line 124,
\* so an exception of either leaves cat before its first yield
catOver(ga, gb) ==
    IF ga.raised \/ gb.raised THEN [raised |-> TRUE, out |-> <<>>]
    ELSE cat(ga.out, gb.out)

\* a list passed to cat yields its elements
Listed(l) == [raised |-> FALSE, out |-> l]

\* list(cat(fa, fb)), list(cat(fb, fa)), list(cat(fa, fa)),
\* sorted(set(fa)), list(cat(cat(fa, fb), fc)) and
\* list(cat(fa, cat(fb, fc)))
CallCat ==
    /\ fout.op = "none"
    /\ fout' = [op |-> "cat", ab |-> cat(fa, fb), ba |-> cat(fb, fa),
                aa |-> cat(fa, fa), dedup |-> SortedSet(fa),
                left |-> catOver(cat(fa, fb), Listed(fc)),
                right |-> catOver(Listed(fa), cat(fb, fc))]
    /\ UNCHANGED <<fa, fb, fc>>
    /\ UNCHANGED fetchVars
    /\ UNCHANGED catVars

\* fa[0] < fb[0] and fb[0] < fa[0]
CallLess ==
    /\ fout.op = "none"
    /\ Len(fa) = 1
    /\ Len(fb) = 1
    /\ fout' = [op |-> "lt", lt |-> EntryLess(fa[1], fb[1]),
                gt |-> EntryLess(fb[1], fa[1])]
    /\ UNCHANGED <<fa, fb, fc>>
    /\ UNCHANGED fetchVars
    /\ UNCHANGED catVars

(***************************************************************************)
(* The program: main takes the download path or the cat path (line 134);   *)
(* iter_history, cat and the Entry comparison are also callable on their   *)
(* own.                                                                    *)
(***************************************************************************)
Init ==
    \/ InitFetch /\ IdleCat /\ IdleFn
    \/ InitDownload /\ InitMain /\ IdleFn
    \/ IdleFetch /\ InitCat /\ IdleFn
    \/ IdleFetch /\ IdleCat /\ InitFn

Next ==
    \/ ConsumerNext
    \/ ConsumerStop
    \/ Begin
    \/ WhileTest
    \/ Request
    \/ Element
    \/ PageCheck
    \/ CatFile
    \/ SortReport
    \/ SortDownload
    \/ WriteTable
    \/ WriteRow
    \/ CallCat
    \/ CallLess

Spec == Init /\ [][Next]_vars

(***************************************************************************)
(* The download under its scheduling.  Python runs the body of a resumed   *)
(* generator up to its next yield, return or exception without waiting for *)
(* anything but the response, and a consumer that consumes the generator   *)
(* fully (set(entries), line 182) calls next() again after every item      *)
(* unless it is interrupted.                                               *)
(***************************************************************************)
InitLive ==
    \/ InitFetch /\ IdleCat /\ IdleFn
    \/ InitDownload /\ InitMain /\ IdleFn

GeneratorStep ==
    \/ Begin
    \/ WhileTest
    \/ Request
    \/ Element
    \/ PageCheck

NextLive ==
    \/ ConsumerNext
    \/ ConsumerStop
    \/ Begin
    \/ WhileTest
    \/ Request
    \/ Element
    \/ PageCheck
    \/ SortDownload
    \/ WriteTable
    \/ WriteRow

SpecLive ==
    /\ InitLive
    /\ [][NextLive]_vars
    /\ WF_vars(GeneratorStep)
    /\ WF_vars(ConsumerNext)

(***************************************************************************)
(* Properties of the download path.                                        *)
(***************************************************************************)
ClosedEnd == Min(end0, now)
LastCall == calls[Len(calls)]
LastRequest == requests[Len(requests)]
NewRequest == requests'[Len(requests')]

\* C1: the sub-ranges passed to iter_history_step start at start, each has
\* start <= end, spans at most 15 days and ends no later than
\* min(end, now); each next one begins no later than the previous one ends
\* (no gap) and not before the previous one begins; and once the generator
\* is exhausted the last one ends at exactly min(end, now).
C1_WindowsCover ==
    /\ calls # <<>> => calls[1][1] = start0
    /\ \A i \in 1..Len(calls) :
          /\ calls[i][1] <= calls[i][2]
          /\ calls[i][2] - calls[i][1] <= step
          /\ calls[i][2] <= ClosedEnd
    /\ \A i \in 1..(Len(calls) - 1) :
          /\ calls[i + 1][1] <= calls[i][2]
          /\ calls[i + 1][1] > calls[i][1]
    /\ (pc = "done" /\ start0 <= ClosedEnd) =>
          /\ calls # <<>>
          /\ LastCall[2] = ClosedEnd

\* a fully consumed range of several sub-ranges whose end was clamped to now
C1_Witness ==
    /\ pc = "done"
    /\ Len(calls) >= 2
    /\ now < end0
    /\ LastCall[2] = now

\* C2 (as claimed): each next sub-range starts one second after the
\* previous one ends.
C2_NonOverlapping ==
    \A i \in 1..(Len(calls) - 1) : calls[i + 1][1] = calls[i][2] + 1

RequestIssued == Len(requests') > Len(requests)
CallStarted == Len(calls') > Len(calls)
Exhausted == pc # "done" /\ pc' = "done"

\* C3 (amended): within one call of iter_history_step the requests carry
\* the page indices 0, 1, 2, ... and the same start, end and pageSize; a
\* request for the next page is issued only after a response of at least
\* pageSize records, and the page loop is left (for the next sub-range, or
\* for the end of the range) only after a response of fewer than pageSize
\* records: a response of pageSize records or more is followed by the
\* request for the next page, a shorter one by no further request for that
\* sub-range.
C3_PageLoop ==
    [][/\ RequestIssued =>
            /\ NewRequest.page = Len(requests)
            /\ NewRequest.pageSize = pageSize
            /\ requests # <<>> =>
                  /\ nrec >= pageSize
                  /\ NewRequest.start = LastRequest.start
                  /\ NewRequest.end = LastRequest.end
       /\ ((CallStarted /\ calls # <<>>) \/ (Exhausted /\ calls # <<>>)) =>
            /\ requests # <<>>
            /\ nrec < pageSize
      ]_vars

\* a full page 0 and a short page 1: two requests, and the page loop is left
C3_Witness ==
    /\ pc = "while"
    /\ Len(requests) = 2
    /\ requests[1].page = 0
    /\ requests[2].page = 1
    /\ nrec < pageSize

\* C3 (as claimed): the request for the next page is issued only after a
\* response of exactly pageSize records.
C3_ExactlyPageSize ==
    [][(RequestIssued /\ requests # <<>>) => nrec = pageSize]_vars

\* C10: a request is issued, and a sub-range entered, only inside a next()
\* call of the consumer and only when every record of the latest response
\* has been yielded; once the consumer has stopped no request is issued and
\* no sub-range entered; and a consumer that stopped after some record has
\* caused no request after the one whose response held that record.
C10_Lazy ==
    /\ [](stopped =>
            \/ pc = "start" /\ requests = <<>>
            \/ lastFrom > 0 /\ Len(requests) = lastFrom)
    /\ [][/\ RequestIssued => (running /\ idx = nrec)
          /\ CallStarted => (running /\ idx = nrec)
          /\ stopped => (requests' = requests /\ calls' = calls)
         ]_vars

\* the consumer stopped inside the second page, with records of it unread
C10_Witness ==
    /\ stopped
    /\ Len(requests) = 2
    /\ LastRequest.page = 1
    /\ idx >= 1
    /\ idx < nrec

(***************************************************************************)
(* Properties of the reconciler and of the Entry ordering.                 *)
(***************************************************************************)
\* the identity key of a record, and the ascending order of identity keys
IdKey(e) == <<e.date, e.type>>
IdKeyLess(k1, k2) == k1[1] < k2[1] \/ (k1[1] = k2[1] /\ StrLess(k1[2], k2[2]))
IdKeys(s) == {IdKey(s[i]) : i \in DOMAIN s}

\* two records of ins share an identity key that is not of type "DATA" and
\* differ in quantity
KeyConflicts(k, ins) ==
    /\ k[2] # "DATA"
    /\ \E i, j \in DOMAIN ins :
          /\ IdKey(ins[i]) = k
          /\ IdKey(ins[j]) = k
          /\ ins[i].quantity # ins[j].quantity
HasConflict(ins) == \E k \in IdKeys(ins) : KeyConflicts(k, ins)

OnePerKeyAscending(out, ins) ==
    /\ IdKeys(out) = IdKeys(ins)
    /\ \A i \in 1..(Len(out) - 1) : IdKeyLess(IdKey(out[i]), IdKey(out[i + 1]))

\* C4: when the fold of cat over the files read so far, or one call of cat,
\* completes without a conflict, the output holds a record for exactly the
\* identity keys of the inputs, in strictly ascending key order (so no two
\* output records share a key).
C4_OnePerKey ==
    /\ pcMain \in {"files", "sorted"} => OnePerKeyAscending(entries, inputs)
    /\ (fout.op = "cat" /\ ~fout.ab.raised) =>
          OnePerKeyAscending(fout.ab.out, fa \o fb)

\* three records in two or more files reconcile to two
C4_Witness ==
    /\ pcMain = "sorted"
    /\ nfiles >= 2
    /\ Len(inputs) = 3
    /\ Len(entries) = 2

\* C5: reconciliation ends with the assertion error exactly when the inputs
\* hold two records of the same (date, type), not of type "DATA", whose
\* quantities differ; and then it has yielded no record for such a key.
C5_ConflictRaises ==
    /\ pcMain = "conflict" => HasConflict(inputs)
    /\ pcMain \in {"files", "sorted"} => ~HasConflict(inputs)
    /\ fout.op = "cat" =>
          /\ fout.ab.raised <=> HasConflict(fa \o fb)
          /\ \A i \in DOMAIN fout.ab.out :
                ~KeyConflicts(IdKey(fout.ab.out[i]), fa \o fb)

\* the second file contradicts the record of the first
C5_Witness ==
    /\ pcMain = "conflict"
    /\ nfiles = 2
    /\ Len(entries) = 1
    /\ Len(inputs) = 2

MaxQuantity(k, ins) ==
    CHOOSE q \in {ins[i].quantity : i \in {j \in DOMAIN ins : IdKey(ins[j]) = k}} :
        \A i \in DOMAIN ins : IdKey(ins[i]) = k => ins[i].quantity <= q

Representative(out, ins) ==
    \A i \in DOMAIN out :
        ~KeyConflicts(IdKey(out[i]), ins) =>
            /\ \E j \in DOMAIN ins : ins[j] = out[i]
            /\ out[i].quantity = MaxQuantity(IdKey(out[i]), ins)

\* C6: the record output for a key of type "DATA", or of equal quantities,
\* is one of the input records of that key and carries the largest quantity
\* observed for the key.
C6_MaxQuantity ==
    /\ pcMain \in {"files", "sorted"} => Representative(entries, inputs)
    /\ fout.op = "cat" => Representative(fout.ab.out, fa \o fb)

\* DATA quantities 100 then 120 at one timestamp reconcile to the 120 record
C6_Witness ==
    /\ pcMain = "sorted"
    /\ Len(inputs) = 2
    /\ inputs[1].type = "DATA"
    /\ IdKey(inputs[1]) = IdKey(inputs[2])
    /\ inputs[1].quantity = 100
    /\ inputs[2].quantity = 120
    /\ entries = <<inputs[2]>>

KeyAndQuantity(e) == <<e.date, e.type, e.quantity>>

\* records that agree in date, type and quantity agree in every field
NoTies(ins) ==
    \A i, j \in DOMAIN ins :
        KeyAndQuantity(ins[i]) = KeyAndQuantity(ins[j]) => ins[i] = ins[j]

DistinctKeys(x) ==
    \A i, j \in DOMAIN x : IdKey(x[i]) = IdKey(x[j]) => x[i] = x[j]

\* C8 (amended): cat(X, X) completes and equals sorted(set(X)) exactly when
\* no two different records of X share an identity key (date, type).
C8_IdempotentOnDistinctKeys ==
    fout.op = "cat" =>
        ((~fout.aa.raised /\ fout.aa.out = fout.dedup) <=> DistinctKeys(fa))

\* an unsorted collection of three keys reconciles with itself to its
\* sorted form
C8_Witness ==
    /\ fout.op = "cat"
    /\ Len(fa) = 3
    /\ DistinctKeys(fa)
    /\ fa # fout.dedup
    /\ Len(fout.dedup) = 3
    /\ fout.aa.out = fout.dedup

\* C8 (as claimed): cat(X, X) equals sorted(set(X)) for every collection X.
C8_Idempotent ==
    fout.op = "cat" => (~fout.aa.raised /\ fout.aa.out = fout.dedup)

\* C9 (amended): an earlier timestamp makes a record smaller, a smaller
\* record never has the later timestamp, and records of equal timestamps
\* are ordered by their remaining fields: of two different records exactly
\* one is smaller than the other, and a record is not smaller than itself.
C9_TimestampFirst ==
    fout.op = "lt" =>
        /\ fa[1].date < fb[1].date => fout.lt
        /\ fout.lt => fa[1].date <= fb[1].date
        /\ fa[1] # fb[1] => (fout.lt <=> ~fout.gt)
        /\ fa[1] = fb[1] => (~fout.lt /\ ~fout.gt)

\* two records of one timestamp, the first smaller than the second
C9_Witness ==
    /\ fout.op = "lt"
    /\ fa[1].date = fb[1].date
    /\ fout.lt

\* C9 (as claimed): r1 < r2 if and only if t1 < t2.
C9_TimestampOnly ==
    fout.op = "lt" => (fout.lt <=> fa[1].date < fb[1].date)

(***************************************************************************)
(* Failures and empty ranges of the download path.                         *)
(***************************************************************************)
\* C11: a response with an error status, or an element that does not
\* decode, ends the fetch: the exception leaves the generator at once (it
\* is finished and no next() call is being served any more), the element
\* that failed is not yielded and not skipped, and from then on no request
\* is issued (no retry, no later page), no sub-range is entered and no
\* record is yielded.
C11_FailureIsFatal ==
    /\ [](failed => (pc = "raised" /\ ~running))
    /\ [][/\ (failed' /\ ~failed) =>
                /\ idx' = idx
                /\ yielded' = yielded
                /\ got' = got
                /\ calls' = calls
          /\ failed =>
                /\ requests' = requests
                /\ calls' = calls
                /\ idx' = idx
                /\ yielded' = yielded
                /\ got' = got
                /\ pc' = pc
         ]_vars

\* an element of the second page did not decode, after records of that page
\* had been yielded and with a further sub-range still to fetch
C11_Witness ==
    /\ failed
    /\ Len(requests) = 2
    /\ 0 < idx
    /\ idx < nrec
    /\ nend < end

\* C12: when start is later than min(end, now) the generator is exhausted
\* by its first next(): no sub-range is entered, no request is issued and
\* no record is yielded.
C12_EmptyRange ==
    start0 > ClosedEnd =>
        /\ pc \in {"start", "while", "done"}
        /\ calls = <<>>
        /\ requests = <<>>
        /\ yielded = 0
        /\ got = <<>>
        /\ ~failed

\* a range that starts no later than it ends, but later than now, consumed
\* to its end
C12_Witness ==
    /\ pc = "done"
    /\ start0 <= end0
    /\ now < start0
    /\ calls = <<>>

\* C13 (as claimed): a range whose start is after its end is rejected with
\* an error: its generator never ends normally, and main never goes on to
\* the report.
C13_InvalidRangeRejected ==
    start0 > end0 => (pc # "done" /\ pcMain # "downloaded")

(***************************************************************************)
(* The month scenario.                                                     *)
(***************************************************************************)
\* day d of February 2023 at h:m:s (February 1st is day 31 of the year,
\* counted from 0)
Feb2023(d, h, m, s) == TimeDelta(31 + d - 1, h, m, s)

MonthIsFeb2023 ==
    /\ entry.kind = "month"
    /\ entry.year = 2023
    /\ entry.month = 2

NonNegative(s) ==
    \A i \in DOMAIN s : s[i].quantity >= 0 /\ s[i].cost >= 0

\* C15 (as claimed): every record decoded from a page of the remote or from
\* a row of a file, and every record of the report, has a quantity and a
\* cost that are not negative.
C15_NonNegative ==
    /\ NonNegative(got)
    /\ NonNegative(inputs)
    /\ NonNegative(entries)

(***************************************************************************)
(* Reconciliation of more than two collections.                            *)
(***************************************************************************)
\* the first record of ins, in input order, that has the key k and the
\* largest quantity of that key
FirstMax(k, ins) ==
    LET is == {i \in DOMAIN ins :
                  /\ IdKey(ins[i]) = k
                  /\ ins[i].quantity = MaxQuantity(k, ins)}
    IN  ins[CHOOSE i \in is : \A j \in is : i <= j]

\* out is the grouping of the records ins by identity key, in ascending key
\* order, each group reduced to its first record of maximum quantity
Reconciled(out, ins) ==
    /\ OnePerKeyAscending(out, ins)
    /\ \A i \in DOMAIN out : out[i] = FirstMax(IdKey(out[i]), ins)

\* C16: cat(cat(A, B), C) and cat(A, cat(B, C)) both fail, exactly when the
\* records of A, B and C hold a conflict, or both produce the same
\* sequence, the grouping of all records of A, B, C in input order reduced
\* to the first maximum-quantity record of each key; and main's fold of cat
\* over the files read so far has produced that grouping of all their
\* records.
C16_Associative ==
    /\ fout.op = "cat" =>
          LET all == (fa \o fb) \o fc
          IN  /\ fout.left.raised <=> HasConflict(all)
              /\ fout.right.raised <=> HasConflict(all)
              /\ ~HasConflict(all) =>
                    /\ fout.left.out = fout.right.out
                    /\ Reconciled(fout.left.out, all)
    /\ pcMain = "files" =>
          /\ ~HasConflict(inputs)
          /\ Reconciled(entries, inputs)

\* three one-record collections of one key, the largest quantity in the
\* third
C16_Witness ==
    /\ fout.op = "cat"
    /\ Len(fa) = 1
    /\ Len(fb) = 1
    /\ Len(fc) = 1
    /\ ~fout.left.raised
    /\ fout.left.out = fc
    /\ fout.right.out = fc
    /\ fa[1].quantity < fc[1].quantity

(***************************************************************************)
(* Termination of the download.                                            *)
(***************************************************************************)
\* C17: a fetch that is consumed without interruption comes to its end, by
\* exhaustion or by an error, when the remote answers some page of every
\* sub-range with fewer than pageSize records (at the latest page
\* MaxPages): every time the page loop is left the window start has
\* advanced, by one step, and the loop over the windows ends once it has
\* passed min(end, now).  Conversely a response of exactly pageSize records
\* never ends the page loop: the next page is requested.
C17_Terminates ==
    /\ <>(pc \in {"done", "raised"} \/ stopped)
    /\ [][(pc = "foreach" /\ pc' = "while") =>
              (nrec < pageSize /\ start' = start + step)]_vars
    /\ [][(pc = "while" /\ pc' = "done") => start > ClosedEnd]_vars
    /\ [][(pc = "foreach" /\ idx = nrec /\ nrec = pageSize /\ pc' # pc) =>
              (pc' = "request" /\ page' = page + 1)]_vars

\* a range of several sub-ranges, one of them of several pages, fetched to
\* its end
C17_Witness ==
    /\ pc = "done"
    /\ Len(calls) >= 2
    /\ Len(requests) >= 2

(***************************************************************************)
(* Pagination against a remote that serves honestly.                       *)
(***************************************************************************)
RECURSIVE Sum(_)
Sum(s) == IF s = <<>> THEN 0 ELSE Head(s) + Sum(Tail(s))

Max(a, b) == IF a >= b THEN a ELSE b

\* the responses of the current call of iter_history_step are those of a
\* remote that holds n records in the sub-range and serves them in pages of
\* pageSize: page k holds the records k * pageSize + 1 .. (k + 1) * pageSize
\* of the n
ServedHonestly(n) ==
    \A i \in DOMAIN responses :
        responses[i] = Min(pageSize, Max(0, n - (i - 1) * pageSize))

\* the page loop of the current call has been left
CallReturned == pc = "while" /\ requests # <<>>

\* C18: when a call of iter_history_step returns and the remote has served
\* the N records it holds in the sub-range honestly, the call has issued
\* exactly N div pageSize + 1 requests, with the page indices 0, 1, ... in
\* order and the start, end and pageSize of the sub-range, and has yielded
\* N records: every record of every page, once, in page order; when N is a
\* positive multiple of pageSize the last response was an empty page.
C18_HonestPagination ==
    LET N == Sum(responses)
    IN  (CallReturned /\ ServedHonestly(N)) =>
            /\ Len(requests) = (N \div pageSize) + 1
            /\ \A i \in DOMAIN requests :
                  /\ requests[i].page = i - 1
                  /\ requests[i].start = LastCall[1]
                  /\ requests[i].end = LastCall[2]
                  /\ requests[i].pageSize = pageSize
            /\ yielded = N
            /\ (N > 0 /\ N % pageSize = 0) => responses[Len(responses)] = 0
            /\ honest =>
                  LET listed == Within(held, LastCall[1], LastCall[2])
                  IN  /\ N = Len(listed)
                      /\ Len(got) >= N
                      /\ \A i \in 1..N :
                            LET e == got[Len(got) - N + i]
                            IN  /\ e.date = listed[i].date
                                /\ e.type = listed[i].type
                                /\ e.quantity = listed[i].quantity

\* a remote holding exactly pageSize records in the sub-range: a full page
\* and an empty one
C18_Witness ==
    /\ CallReturned
    /\ responses = <<pageSize, 0>>
    /\ yielded = pageSize

(***************************************************************************)
(* The report of the download path.                                        *)
(***************************************************************************)
\* the record e of the report is the record r the remote holds
SameRecord(e, r) ==
    /\ e.date = r.date
    /\ e.type = r.type
    /\ e.direction = r.direction
    /\ e.quantity = r.quantity
    /\ e.cost = r.price

InRange(r) == start0 <= r.date /\ r.date <= ClosedEnd

\* C19: when the remote holds distinct records and lists for every request
\* those with start <= date <= end, the report of a download that was
\* consumed to its end holds every record of the remote whose date lies in
\* [start, min(end, now)] exactly once and no other record, in ascending
\* order of date, also when a record's date is the instant two consecutive
\* sub-ranges share.
C19_CompleteNoDuplicates ==
    pcMain = "downloaded" =>
        /\ \A i \in DOMAIN held :
              InRange(held[i]) =>
                  Cardinality({j \in DOMAIN entries :
                                  SameRecord(entries[j], held[i])}) = 1
        /\ \A j \in DOMAIN entries :
              \E i \in DOMAIN held :
                  InRange(held[i]) /\ SameRecord(entries[j], held[i])
        /\ \A j \in 1..(Len(entries) - 1) :
              /\ entries[j].date <= entries[j + 1].date
              /\ entries[j] # entries[j + 1]

\* a report of four records from a remote that listed newest first, two of
\* them yielded by two sub-ranges each
C19_Witness ==
    /\ pcMain = "downloaded"
    /\ Len(calls) >= 2
    /\ Len(entries) = 4
    /\ Len(got) = 6
    /\ got[1].date > got[3].date

(***************************************************************************)
(* The rows of the report.                                                 *)
(***************************************************************************)
\* the run has ended without a report: a response or an element failed, the
\* consumer was interrupted, a row of a file did not decode, or cat found a
\* conflict
Halted ==
    \/ failed
    \/ stopped
    \/ pcMain \in {"decode_error", "conflict"}

\* C20: rows of the report are written only after line 182 has
\* materialised and sorted every record: on the download path the
\* generator is exhausted by then, on the cat path every file has been
\* reconciled; the rows written are rows of that sorted list, which no
\* longer changes; and a run that halted on a failure, a conflict or an
\* interrupt has written no row, whatever the generators had yielded.
C20_AllOrNothing ==
    /\ [](written > 0 =>
            /\ pcMain \in {"sorted", "downloaded"}
            /\ pcMain = "downloaded" => pc = "done"
            /\ written <= Len(entries))
    /\ [](Halted => written = 0)
    /\ [][written' # written =>
            /\ written' > written
            /\ ~Halted
            /\ entries' = entries
            /\ got' = got
            /\ inputs' = inputs
            /\ requests' = requests
         ]_vars
    /\ [][written > 0 =>
            /\ entries' = entries
            /\ requests' = requests
            /\ nfiles' = nfiles
         ]_vars

\* an element did not decode after records had been yielded to main: no
\* row is written
C20_Witness ==
    /\ pcMain = "download"
    /\ failed
    /\ Len(got) >= 2
    /\ written = 0

====
